---- MODULE Spec2Model ----
(***************************************************************************)
(* A model of RDKit's Dict (Dict.h): a std::map from string keys to        *)
(* RDValue cells plus the _hasNonPodData flag, together with the heap of   *)
(* boxed payloads the cells own.                                           *)
(*                                                                         *)
(* Keys are the numbers 1..NumKeys, standing for NumKeys distinct strings  *)
(* in their std::map (lexicographic) order.  Heap payloads live at the     *)
(* addresses 1..MaxAlloc; an address is never handed out twice, so a       *)
(* dangling or doubly freed payload stays visible.                         *)
(***************************************************************************)
EXTENDS Integers, FiniteSets, Sequences, TLC

NumMaps == 2
NumKeys == 2
MaxAlloc == 3
MaxVal == 2
MaxPod == 1
MaxN == 3
MaxRankVal == 3
MaxExtra == 1

Maps == 1..NumMaps
Keys == 1..NumKeys
Addrs == 1..MaxAlloc
NoMap == 0

PodTags == {"BoolTag", "IntTag", "UnsignedIntTag", "FloatTag", "DoubleTag"}
BoxedTags == {"StringTag"}

\* The typed values a caller hands to setVal: a tag and a logical value (an int
\* for the primitive overloads, a std::string for the template).
PodVals == {[type |-> "IntTag", v |-> x] : x \in 1..MaxPod}
BoxedVals == {[type |-> "StringTag", v |-> x] : x \in 1..MaxVal}

VARIABLES
  alive,            \* alive[m]: the Dict object m is constructed and not destroyed
  _data,            \* _data[m]: the std::map<std::string, RDValue> of m
  _hasNonPodData,   \* _hasNonPodData[m]
  heap,             \* heap[p]: the payload at address p
  last,             \* the operation that produced this state, with what it returned
  copied,           \* a copy-construction or assignment between two maps has happened
  caller,           \* an RDValue cell owned by the caller (a pair's second, an lvalue argument)
  holder,           \* the PairHolder object
  vect,             \* rankVect: the vector to rank
  indices,          \* rankVect: the index permutation
  res,              \* rankVect: the result container
  touched           \* rankVect: the positions of res the call read or wrote

\* The state of the Dict objects and of the heap.
dictVars == <<alive, _data, _hasNonPodData, heap>>

\* What the operations on Dict objects alone leave untouched.
others == <<caller, holder, vect, indices, res, touched>>

vars == <<alive, _data, _hasNonPodData, heap, last, copied, caller, holder,
          vect, indices, res, touched>>

----------------------------------------------------------------------------
(* RDValue and its tag-dispatched helpers.                                 *)

EmptyData == [k \in {} |-> 0]

EmptyCell == [type |-> "EmptyTag", v |-> 0, ptr |-> 0]

is_pod(c) == c.type \in PodTags \cup {"EmptyTag"}

NewAddr(h) == CHOOSE p \in Addrs : h[p].st = "unalloc" /\ \A q \in Addrs : q < p => h[q].st # "unalloc"

NumFree(h) == Cardinality({p \in Addrs : h[p].st = "unalloc"})

\* delete of the payload at p: a second delete of the same payload is recorded.
Free(h, p) ==
  [h EXCEPT ![p] = [st |-> IF @.st = "live" THEN "freed" ELSE "doublefreed", v |-> 0]]

\* RDValue(val): a primitive is stored inline, anything else is boxed on the heap.
\* Yields the cell and the new heap.
RDValueOf(h, val) ==
  IF val.type \in PodTags
    THEN [c |-> [type |-> val.type, v |-> val.v, ptr |-> 0], h |-> h]
    ELSE LET p == NewAddr(h)
         IN [c |-> [type |-> val.type, v |-> 0, ptr |-> p],
             h |-> [h EXCEPT ![p] = [st |-> "live", v |-> val.v]]]

\* RDValue::cleanup_rdvalue(c): frees the payload of a boxed cell.
cleanup_rdvalue(h, c) == IF is_pod(c) THEN h ELSE Free(h, c.ptr)

\* copy_rdvalue(dest, src): a value copy of a primitive, a fresh payload for a
\* boxed cell.  Yields dest and the new heap.
copy_rdvalue(h, src) ==
  IF is_pod(src)
    THEN [c |-> src, h |-> h]
    ELSE LET p == NewAddr(h)
         IN [c |-> [type |-> src.type, v |-> 0, ptr |-> p],
             h |-> [h EXCEPT ![p] = [st |-> "live", v |-> h[src.ptr].v]]]

\* from_rdvalue<T>(c): the typed value a cell holds; reading a payload that is
\* not live yields no value.
from_rdvalue(h, c) ==
  IF is_pod(c) THEN [type |-> c.type, v |-> c.v]
  ELSE IF h[c.ptr].st = "live" THEN [type |-> c.type, v |-> h[c.ptr].v]
  ELSE [type |-> "Dangling", v |-> 0]

----------------------------------------------------------------------------
(* std::map primitives.                                                    *)

\* _data.emplace(k, c): inserts only when k is absent.
Emplace(d, k, c) == IF k \in DOMAIN d THEN d ELSE d @@ (k :> c)

\* _data.erase(it)
Erase(d, k) == [x \in DOMAIN d \ {k} |-> d[x]]

Min(S) == CHOOSE x \in S : \A y \in S : x <= y

\* StoreVal without the overwrite branch: emplace keeps an existing cell.
StoreVal_EmplaceOnly(h, d, k, val) ==
  LET r == RDValueOf(h, val)
  IN [d |-> Emplace(d, k, r.c), h |-> r.h]

\* The body shared by setVal and setPODVal: find the key, clean up and
\* overwrite an existing cell, emplace otherwise.
StoreVal(h, d, k, val) ==
  IF k \in DOMAIN d
    THEN LET r == RDValueOf(cleanup_rdvalue(h, d[k]), val)
         IN [d |-> [d EXCEPT ![k] = r.c], h |-> r.h]
    ELSE LET r == RDValueOf(h, val)
         IN [d |-> Emplace(d, k, r.c), h |-> r.h]

\* for (auto &kv : _data) RDValue::cleanup_rdvalue(kv.second);
RECURSIVE CleanupAll(_, _, _)
CleanupAll(h, d, ks) ==
  IF ks = {} THEN h
  ELSE LET k == Min(ks) IN CleanupAll(cleanup_rdvalue(h, d[k]), d, ks \ {k})

\* reset(): cleanup of every cell only under the flag, then _data.clear().
ResetData(h, d, flag) ==
  [d |-> EmptyData, h |-> IF flag THEN CleanupAll(h, d, DOMAIN d) ELSE h]

\* for (const auto &kv : other._data) { RDValue tmp; copy_rdvalue(tmp, kv.second);
\*   _data.emplace(kv.first, tmp); }   in ascending key order
RECURSIVE DeepCopyLoop(_, _, _, _)
DeepCopyLoop(h, d, od, ks) ==
  IF ks = {} THEN [d |-> d, h |-> h]
  ELSE LET k == Min(ks)
           r == copy_rdvalue(h, od[k])
       IN DeepCopyLoop(r.h, Emplace(d, k, r.c), od, ks \ {k})

\* The loop of update taking the overwrite branch for keys the receiver has.
RECURSIVE UpdateLoop_Overwrite(_, _, _, _)
UpdateLoop_Overwrite(h, d, od, ks) ==
  IF ks = {} THEN [d |-> d, h |-> h]
  ELSE LET k == Min(ks)
       IN IF k \notin DOMAIN d
            THEN LET r == copy_rdvalue(h, od[k])
                 IN UpdateLoop_Overwrite(r.h, Emplace(d, k, r.c), od, ks \ {k})
            ELSE LET r == copy_rdvalue(cleanup_rdvalue(h, d[k]), od[k])
                 IN UpdateLoop_Overwrite(r.h, [d EXCEPT ![k] = r.c], od, ks \ {k})

\* The loop of update(other, true): only keys absent from the receiver are
\* copied in (the overwrite branch is dead under preserveExisting).
RECURSIVE UpdateLoop(_, _, _, _)
UpdateLoop(h, d, od, ks) ==
  IF ks = {} THEN [d |-> d, h |-> h]
  ELSE LET k == Min(ks)
       IN IF k \notin DOMAIN d
            THEN LET r == copy_rdvalue(h, od[k])
                 IN UpdateLoop(r.h, Emplace(d, k, r.c), od, ks \ {k})
            ELSE UpdateLoop(h, d, od, ks \ {k})

\* update(other, true) without the flag propagation.
UpdatePreserve_NoFlag(h, d, flag, od, oflag) ==
  LET r == UpdateLoop(h, d, od, DOMAIN od)
  IN [d |-> r.d, h |-> r.h, flag |-> flag]

\* The preserveExisting branch of update: the receiver's new _data and flag
\* and the heap.
UpdatePreserve(h, d, flag, od, oflag) ==
  LET r == UpdateLoop(h, d, od, DOMAIN od)
  IN [d |-> r.d, h |-> r.h, flag |-> IF oflag THEN TRUE ELSE flag]

\* Number of payloads a deep copy of the cells of d at keys ks allocates.
NumBoxed(d, ks) == Cardinality({k \in ks : ~is_pod(d[k])})

\* Number of payloads a typed value allocates when an RDValue is built from it.
NumNew(val) == IF val.type \in PodTags THEN 0 ELSE 1

NoVal == [type |-> "EmptyTag", v |-> 0]

\* The caller holds no cell; no PairHolder exists.
NoCaller == [st |-> "none", key |-> 0, c |-> EmptyCell]
NoHolder == [st |-> "none", from |-> "none", key |-> 0, val |-> EmptyCell]

Op(op, m, o, k, val) == [op |-> op, m |-> m, o |-> o, k |-> k, val |-> val]

Init ==
  /\ alive = [m \in Maps |-> TRUE]
  /\ _data = [m \in Maps |-> EmptyData]
  /\ _hasNonPodData = [m \in Maps |-> FALSE]
  /\ heap = [p \in Addrs |-> [st |-> "unalloc", v |-> 0]]
  /\ last = Op("init", NoMap, NoMap, 0, NoVal)
  /\ copied = FALSE
  /\ caller = NoCaller
  /\ holder = NoHolder
  /\ vect = <<>> /\ indices = <<>> /\ res = <<>> /\ touched = {}

----------------------------------------------------------------------------
(* The operations of Dict.                                                 *)

\* Dict()
DefaultConstruct(m) ==
  /\ ~alive[m]
  /\ alive' = [alive EXCEPT ![m] = TRUE]
  /\ _data' = [_data EXCEPT ![m] = EmptyData]
  /\ _hasNonPodData' = [_hasNonPodData EXCEPT ![m] = FALSE]
  /\ UNCHANGED others
  /\ last' = Op("Dict", m, NoMap, 0, NoVal)
  /\ UNCHANGED <<heap, copied>>

\* A copy constructor that always takes the bulk-copy path.
CopyConstructData_Bitwise(h, od, oflag) == [d |-> od, h |-> h]

\* The body of Dict(const Dict &other): the new map's _data and the heap.
CopyConstructData(h, od, oflag) ==
  IF oflag
    THEN DeepCopyLoop(h, EmptyData, od, DOMAIN od)
    ELSE [d |-> od, h |-> h]

\* Dict(const Dict &other)
CopyConstruct(m, o) ==
  /\ ~alive[m] /\ alive[o]
  /\ NumBoxed(_data[o], DOMAIN _data[o]) <= NumFree(heap)
  /\ LET r == CopyConstructData(heap, _data[o], _hasNonPodData[o])
     IN /\ _data' = [_data EXCEPT ![m] = r.d]
        /\ heap' = r.h
  /\ alive' = [alive EXCEPT ![m] = TRUE]
  /\ _hasNonPodData' = [_hasNonPodData EXCEPT ![m] = _hasNonPodData[o]]
  /\ UNCHANGED others
  /\ last' = Op("copy-construct", m, o, 0, NoVal)
  /\ copied' = TRUE

\* Dict(Dict &&other) noexcept
MoveConstruct(m, o) ==
  /\ ~alive[m] /\ alive[o]
  /\ alive' = [alive EXCEPT ![m] = TRUE]
  /\ _data' = [_data EXCEPT ![m] = _data[o], ![o] = EmptyData]
  /\ _hasNonPodData' = [_hasNonPodData EXCEPT ![m] = _hasNonPodData[o], ![o] = FALSE]
  /\ UNCHANGED others
  /\ last' = Op("move-construct", m, o, 0, NoVal)
  /\ UNCHANGED <<heap, copied>>

\* A copy assignment that always takes the bulk-copy path after the reset.
CopyAssign_Bitwise(h, d, flag, od, oflag) ==
  LET r0 == IF flag THEN ResetData(h, d, flag) ELSE [d |-> d, h |-> h]
  IN [d |-> od, h |-> r0.h, flag |-> oflag]

\* Dict &operator=(const Dict &other), as a function of the receiver's and the
\* source's state: the receiver's new _data, flag and the heap.
CopyAssign(h, d, flag, od, oflag) ==
  LET r0 == IF flag THEN ResetData(h, d, flag) ELSE [d |-> d, h |-> h]
      r1 == IF oflag
              THEN DeepCopyLoop(r0.h, r0.d, od, DOMAIN od)
              ELSE [d |-> od, h |-> r0.h]
  IN [d |-> r1.d, h |-> r1.h, flag |-> oflag]

\* A copy assignment without the this == &other test: other._data is the
\* receiver's own std::map, emptied by the reset.
Assign_NoSelfCheck(m, o) ==
  /\ alive[m] /\ alive[o]
  /\ NumBoxed(_data[o], DOMAIN _data[o]) <= NumFree(heap)
  /\ LET r0 == IF _hasNonPodData[m]
                 THEN ResetData(heap, _data[m], _hasNonPodData[m])
                 ELSE [d |-> _data[m], h |-> heap]
         od == IF m = o THEN r0.d ELSE _data[o]
         r1 == IF _hasNonPodData[o]
                 THEN DeepCopyLoop(r0.h, r0.d, od, DOMAIN od)
                 ELSE [d |-> od, h |-> r0.h]
     IN /\ _data' = [_data EXCEPT ![m] = r1.d]
        /\ _hasNonPodData' = [_hasNonPodData EXCEPT ![m] = _hasNonPodData[o]]
        /\ heap' = r1.h
        /\ copied' = TRUE
  /\ UNCHANGED others
  /\ last' = Op("assign", m, o, 0, NoVal)
  /\ UNCHANGED alive

\* m = o
Assign(m, o) ==
  /\ alive[m] /\ alive[o]
  /\ m # o => NumBoxed(_data[o], DOMAIN _data[o]) <= NumFree(heap)
  /\ IF m = o
       THEN UNCHANGED <<_data, _hasNonPodData, heap, copied>>
       ELSE LET r == CopyAssign(heap, _data[m], _hasNonPodData[m], _data[o], _hasNonPodData[o])
            IN /\ _data' = [_data EXCEPT ![m] = r.d]
               /\ _hasNonPodData' = [_hasNonPodData EXCEPT ![m] = r.flag]
               /\ heap' = r.h
               /\ copied' = TRUE
  /\ UNCHANGED others
  /\ last' = Op("assign", m, o, 0, NoVal)
  /\ UNCHANGED alive

\* A move assignment written as a swap of _data and flag.
MoveAssignResult_Swap(h, d, flag, od, oflag) ==
  [d |-> od, flag |-> oflag, od |-> d, oflag |-> flag, h |-> h]

\* Dict &operator=(Dict &&other) for distinct maps: the receiver's and the
\* source's new _data and flag, and the heap.
MoveAssignResult(h, d, flag, od, oflag) ==
  LET r0 == IF flag THEN ResetData(h, d, flag) ELSE [d |-> d, h |-> h]
  IN [d |-> od, flag |-> oflag, od |-> EmptyData, oflag |-> FALSE, h |-> r0.h]

\* m = std::move(o)
MoveAssign(m, o) ==
  /\ alive[m] /\ alive[o]
  /\ IF m = o
       THEN UNCHANGED <<_data, _hasNonPodData, heap>>
       ELSE LET r == MoveAssignResult(heap, _data[m], _hasNonPodData[m], _data[o], _hasNonPodData[o])
            IN /\ _data' = [_data EXCEPT ![m] = r.d, ![o] = r.od]
               /\ _hasNonPodData' = [_hasNonPodData EXCEPT ![m] = r.flag, ![o] = r.oflag]
               /\ heap' = r.h
  /\ UNCHANGED others
  /\ last' = Op("move-assign", m, o, 0, NoVal)
  /\ UNCHANGED <<alive, copied>>

\* ~Dict()
Destroy(m) ==
  /\ alive[m]
  /\ LET r == ResetData(heap, _data[m], _hasNonPodData[m])
     IN /\ _data' = [_data EXCEPT ![m] = r.d]
        /\ heap' = r.h
  /\ alive' = [alive EXCEPT ![m] = FALSE]
  /\ _hasNonPodData' = [_hasNonPodData EXCEPT ![m] = FALSE]
  /\ UNCHANGED others
  /\ last' = Op("~Dict", m, NoMap, 0, NoVal)
  /\ UNCHANGED copied

\* template <typename T> void setVal(std::string_view what, T &val)
setVal(m, k, val) ==
  /\ alive[m]
  /\ NumNew(val) <= NumFree(heap)
  /\ LET s == StoreVal(heap, _data[m], k, val)
     IN /\ _data' = [_data EXCEPT ![m] = s.d]
        /\ heap' = s.h
  /\ _hasNonPodData' = [_hasNonPodData EXCEPT ![m] = TRUE]
  /\ UNCHANGED others
  /\ last' = Op("setVal", m, NoMap, k, val)
  /\ UNCHANGED <<alive, copied>>

\* A primitive set that goes through the generic template.
setPODVal_SetsFlag(m, k, val) ==
  /\ alive[m]
  /\ LET s == StoreVal(heap, _data[m], k, val)
     IN /\ _data' = [_data EXCEPT ![m] = s.d]
        /\ heap' = s.h
  /\ _hasNonPodData' = [_hasNonPodData EXCEPT ![m] = TRUE]
  /\ UNCHANGED others
  /\ last' = Op("setPODVal", m, NoMap, k, val)
  /\ UNCHANGED <<alive, copied>>

\* setPODVal, reached through the bool, double, float, int and unsigned int
\* overloads of setVal
setPODVal(m, k, val) ==
  /\ alive[m]
  /\ LET s == StoreVal(heap, _data[m], k, val)
     IN /\ _data' = [_data EXCEPT ![m] = s.d]
        /\ heap' = s.h
  /\ UNCHANGED others
  /\ last' = Op("setPODVal", m, NoMap, k, val)
  /\ UNCHANGED <<alive, _hasNonPodData, copied>>

\* void moveInsert(std::string_view what, RDValue val): the caller builds the
\* RDValue from a typed value and passes it by value.
moveInsert(m, k, val) ==
  /\ alive[m]
  /\ NumNew(val) <= NumFree(heap)
  /\ LET arg == RDValueOf(heap, val)
         d == _data[m]
     IN /\ _hasNonPodData' = [_hasNonPodData EXCEPT ![m] = @ \/ ~is_pod(arg.c)]
        /\ IF k \in DOMAIN d
             THEN /\ heap' = cleanup_rdvalue(arg.h, d[k])
                  /\ _data' = [_data EXCEPT ![m] = [d EXCEPT ![k] = arg.c]]
             ELSE /\ heap' = arg.h
                  /\ _data' = [_data EXCEPT ![m] = Emplace(d, k, arg.c)]
  /\ UNCHANGED others
  /\ last' = Op("moveInsert", m, NoMap, k, val)
  /\ UNCHANGED <<alive, copied>>

\* void clearVal(std::string_view what)
clearVal(m, k) ==
  /\ alive[m]
  /\ LET d == _data[m]
     IN IF k \in DOMAIN d
          THEN /\ heap' = IF _hasNonPodData[m] THEN cleanup_rdvalue(heap, d[k]) ELSE heap
               /\ _data' = [_data EXCEPT ![m] = Erase(d, k)]
          ELSE UNCHANGED <<heap, _data>>
  /\ UNCHANGED others
  /\ last' = Op("clearVal", m, NoMap, k, NoVal)
  /\ UNCHANGED <<alive, _hasNonPodData, copied>>

\* A reset that also clears the flag.
reset_ClearsFlag(m) ==
  /\ alive[m]
  /\ LET r == ResetData(heap, _data[m], _hasNonPodData[m])
     IN /\ _data' = [_data EXCEPT ![m] = r.d]
        /\ heap' = r.h
  /\ _hasNonPodData' = [_hasNonPodData EXCEPT ![m] = FALSE]
  /\ UNCHANGED others
  /\ last' = Op("reset", m, NoMap, 0, NoVal)
  /\ UNCHANGED <<alive, copied>>

\* void reset()
reset(m) ==
  /\ alive[m]
  /\ LET r == ResetData(heap, _data[m], _hasNonPodData[m])
     IN /\ _data' = [_data EXCEPT ![m] = r.d]
        /\ heap' = r.h
  /\ UNCHANGED others
  /\ last' = Op("reset", m, NoMap, 0, NoVal)
  /\ UNCHANGED <<alive, _hasNonPodData, copied>>

\* void update(const Dict &other, bool preserveExisting)
update(m, o, preserveExisting) ==
  /\ alive[m] /\ alive[o]
  /\ IF preserveExisting
       THEN NumBoxed(_data[o], DOMAIN _data[o] \ DOMAIN _data[m]) <= NumFree(heap)
       ELSE m # o => NumBoxed(_data[o], DOMAIN _data[o]) <= NumFree(heap)
  /\ IF ~preserveExisting
       THEN IF m = o
              THEN UNCHANGED <<_data, _hasNonPodData, heap, copied>>
              ELSE LET r == CopyAssign(heap, _data[m], _hasNonPodData[m], _data[o], _hasNonPodData[o])
                   IN /\ _data' = [_data EXCEPT ![m] = r.d]
                      /\ _hasNonPodData' = [_hasNonPodData EXCEPT ![m] = r.flag]
                      /\ heap' = r.h
                      /\ copied' = TRUE
       ELSE LET r == UpdatePreserve(heap, _data[m], _hasNonPodData[m], _data[o], _hasNonPodData[o])
            IN /\ _hasNonPodData' = [_hasNonPodData EXCEPT ![m] = r.flag]
               /\ _data' = [_data EXCEPT ![m] = r.d]
               /\ heap' = r.h
               /\ UNCHANGED copied
  /\ UNCHANGED others
  /\ last' = Op(IF preserveExisting THEN "update-preserve" ELSE "update-replace", m, o, 0, NoVal)
  /\ UNCHANGED alive

Next ==
  \/ \E m \in Maps : DefaultConstruct(m)
  \/ \E m, o \in Maps : CopyConstruct(m, o)
  \/ \E m, o \in Maps : MoveConstruct(m, o)
  \/ \E m, o \in Maps : Assign(m, o)
  \/ \E m, o \in Maps : MoveAssign(m, o)
  \/ \E m \in Maps : Destroy(m)
  \/ \E m \in Maps, k \in Keys, val \in BoxedVals : setVal(m, k, val)
  \/ \E m \in Maps, k \in Keys, val \in PodVals : setPODVal(m, k, val)
  \/ \E m \in Maps, k \in Keys, val \in PodVals \cup BoxedVals : moveInsert(m, k, val)
  \/ \E m \in Maps, k \in Keys : clearVal(m, k)
  \/ \E m \in Maps : reset(m)
  \/ \E m, o \in Maps, preserveExisting \in BOOLEAN : update(m, o, preserveExisting)

Spec == Init /\ [][Next]_vars

----------------------------------------------------------------------------
(* Observations used by the properties.                                    *)

\* bool hasVal(std::string_view what) const
hasVal(m, k) == k \in DOMAIN _data[m]

\* T getVal(std::string_view what) const, on the std::map d under heap h
ReadVal(d, h, k) ==
  IF k \notin DOMAIN d
    THEN [type |-> "KeyErrorException", v |-> 0]
    ELSE from_rdvalue(h, d[k])

getVal(m, k) == ReadVal(_data[m], heap, k)

\* The logical contents of a std::map: every present key with the value it
\* reads as.
ContentsOf(d, h) == [k \in DOMAIN d |-> ReadVal(d, h, k)]

Contents(m) == ContentsOf(_data[m], heap)

Readable(m) == \A k \in DOMAIN _data[m] : getVal(m, k).type # "Dangling"

BoxedKeys(m) == {k \in DOMAIN _data[m] : ~is_pod(_data[m][k])}

\* The boxed cells stored in live maps, as <<map, key>>.
BoxedCells == {c \in Maps \X Keys : alive[c[1]] /\ c[2] \in BoxedKeys(c[1])}

Owned(p) == \E c \in BoxedCells : _data[c[1]][c[2]].ptr = p

IsMove(op) == op \in {"move-construct", "move-assign"}
IsReplace(op) == op \in {"assign", "move-assign", "update-replace"}

----------------------------------------------------------------------------
(* C1..C10                                                                 *)

\* C1: in every reachable state, a live map that holds at least one cell with
\* a boxed tag has its _hasNonPodData flag set.
C1_BoxedImpliesFlag ==
  \A m \in Maps : (alive[m] /\ BoxedKeys(m) # {}) => _hasNonPodData[m]

\* A map holding a primitive cell got a boxed cell through update(other, true).
C1_Witness ==
  /\ last.op = "update-preserve" /\ last.m # last.o
  /\ BoxedKeys(last.m) # {}
  /\ \E k \in DOMAIN _data[last.m] : is_pod(_data[last.m][k])
  /\ _hasNonPodData[last.m]

\* C2 (as claimed): after A.update(B, false) with A and B distinct, A's keys
\* and values are exactly B's, whatever the flags and A's prior keys were.
C2_UpdateReplaceYieldsSource ==
  (last.op = "update-replace" /\ last.m # last.o) =>
     Contents(last.m) = Contents(last.o)

\* C3 (as claimed): every allocated payload is owned by a cell of a live map
\* or has been freed; with every map destroyed, every payload has been freed.
C3_NoLeak ==
  /\ \A p \in Addrs : heap[p].st = "live" => Owned(p)
  /\ (\A m \in Maps : ~alive[m]) => \A p \in Addrs : heap[p].st # "live"

\* C4: no payload is referenced by two boxed cells stored in maps, and no
\* payload is freed twice.
C4_ExclusiveOwnership ==
  /\ \A c1, c2 \in BoxedCells :
        _data[c1[1]][c1[2]].ptr = _data[c2[1]][c2[2]].ptr => c1 = c2
  /\ \A p \in Addrs : heap[p].st # "doublefreed"

\* Two maps hold the same boxed value under the same key after a copy, and an
\* earlier payload has already been freed.
C4_Witness ==
  /\ last.op \in {"copy-construct", "assign", "update-replace", "update-preserve"}
  /\ last.m # last.o
  /\ \E k \in BoxedKeys(last.m) \cap BoxedKeys(last.o) :
        getVal(last.m, k) = getVal(last.o, k)
  /\ \E p \in Addrs : heap[p].st = "freed"

\* C5: once a map has been copy-constructed or assigned from another, a step
\* that operates on one of them leaves every other live map's keys and values
\* unchanged and readable.
C5_DeepCopyIndependence ==
  [][\A b \in Maps :
       (copied /\ alive[b] /\ b # last'.m /\ ~(IsMove(last'.op) /\ last'.o = b))
         => (alive'[b] /\ Contents(b)' = Contents(b) /\ Readable(b)')]_vars

\* After a copy, the source's key was overwritten with a new boxed value (or the
\* source was destroyed) and the other map still reads its own boxed value.
C5_Witness ==
  /\ copied
  /\ last.op \in {"setVal", "~Dict"}
  /\ \E b \in Maps \ {last.m} :
        /\ alive[b] /\ BoxedKeys(b) # {} /\ Readable(b)
        /\ last.op = "setVal" => (last.k \in BoxedKeys(b) /\ getVal(b, last.k) # last.val)

\* C6: a move-construction or move-assignment from a distinct map leaves the
\* source without keys and flag-false, and gives the target exactly the
\* source's prior cells and flag.
C6_MoveIsDestructive ==
  [][(IsMove(last'.op) /\ last'.m # last'.o) =>
       /\ DOMAIN _data'[last'.o] = {}
       /\ ~_hasNonPodData'[last'.o]
       /\ _data'[last'.m] = _data[last'.o]
       /\ ContentsOf(_data'[last'.m], heap') = ContentsOf(_data[last'.o], heap)
       /\ _hasNonPodData'[last'.m] = _hasNonPodData[last'.o]]_vars

\* A move-assignment of a flag-true source holding a boxed value.
C6_Witness ==
  /\ last.op = "move-assign" /\ last.m # last.o
  /\ _hasNonPodData[last.m] /\ BoxedKeys(last.m) # {} /\ Readable(last.m)
  /\ \E p \in Addrs : heap[p].st = "freed"

\* C7: after A.update(B, true), A's keys are the union of both key sets, every
\* key A had keeps A's cell, every key only B had reads in A as B's value from
\* a payload no other cell references, and B is unchanged.
C7_UpdatePreserve ==
  [][last'.op = "update-preserve" =>
       LET a == last'.m
           b == last'.o
       IN /\ DOMAIN _data'[a] = DOMAIN _data[a] \cup DOMAIN _data[b]
          /\ \A k \in DOMAIN _data[a] :
                /\ _data'[a][k] = _data[a][k]
                /\ ReadVal(_data'[a], heap', k) = ReadVal(_data[a], heap, k)
          /\ \A k \in DOMAIN _data[b] \ DOMAIN _data[a] :
                /\ ReadVal(_data'[a], heap', k) = ReadVal(_data[b], heap, k)
                /\ ~is_pod(_data'[a][k]) =>
                      \A c \in BoxedCells' : _data'[c[1]][c[2]].ptr = _data'[a][k].ptr => c = <<a, k>>
          /\ a # b => /\ _data'[b] = _data[b]
                       /\ ContentsOf(_data'[b], heap') = ContentsOf(_data[b], heap)
                       /\ _hasNonPodData'[b] = _hasNonPodData[b]]_vars

\* An update(B, true) where A kept its own value under a shared key and gained
\* a boxed value under a key only B had.
C7_Witness ==
  /\ last.op = "update-preserve" /\ last.m # last.o
  /\ \E k \in DOMAIN _data[last.m] \cap DOMAIN _data[last.o] :
        getVal(last.m, k) # getVal(last.o, k)
  /\ \E k \in BoxedKeys(last.m) \cap BoxedKeys(last.o) :
        getVal(last.m, k) = getVal(last.o, k)

\* C8: the flag of a map that stays alive goes from true to false only in a
\* step that moves from it or that assigns, move-assigns or update-replaces it
\* from another map whose flag is false; clearVal and reset never change it.
C8_FlagClearedOnlyByReplacement ==
  [][/\ \A m \in Maps :
          (alive[m] /\ alive'[m] /\ _hasNonPodData[m] /\ ~_hasNonPodData'[m]) =>
             \/ IsMove(last'.op) /\ last'.o = m /\ last'.m # m
             \/ IsReplace(last'.op) /\ last'.m = m /\ last'.o # m
                  /\ ~_hasNonPodData[last'.o]
     /\ last'.op \in {"clearVal", "reset"} => _hasNonPodData' = _hasNonPodData]_vars

\* clearVal or reset removed the last boxed value: the flag is still true.
C8_Witness ==
  /\ last.op \in {"clearVal", "reset"}
  /\ _hasNonPodData[last.m]
  /\ BoxedKeys(last.m) = {}
  /\ \E p \in Addrs : heap[p].st = "freed"

\* C9: a set of a primitive value leaves the map's flag as it was; a set of
\* any other value leaves the flag true.
C9_SetFlagEffect ==
  [][/\ last'.op = "setPODVal" => _hasNonPodData' = _hasNonPodData
     /\ last'.op = "setVal" => _hasNonPodData'[last'.m]]_vars

\* A primitive set into a flag-false map, next to a flag-true map.
C9_Witness ==
  /\ last.op = "setPODVal"
  /\ ~_hasNonPodData[last.m]
  /\ hasVal(last.m, last.k)
  /\ \E o \in Maps : _hasNonPodData[o]

\* C10: after set(k, v), k is present and reads as v, and every other key is
\* present or absent as before and reads as before.
C10_SetRoundTrip ==
  [][last'.op \in {"setVal", "setPODVal"} =>
       LET m == last'.m
           k == last'.k
       IN /\ k \in DOMAIN _data'[m]
          /\ ReadVal(_data'[m], heap', k) = last'.val
          /\ \A k2 \in Keys \ {k} :
                /\ (k2 \in DOMAIN _data'[m]) = hasVal(m, k2)
                /\ ReadVal(_data'[m], heap', k2) = getVal(m, k2)]_vars

\* A set that overwrote a boxed value while another key of the map holds a
\* boxed value.
C10_Witness ==
  /\ last.op \in {"setVal", "setPODVal"}
  /\ getVal(last.m, last.k) = last.val
  /\ \E p \in Addrs : heap[p].st = "freed"
  /\ \E k2 \in BoxedKeys(last.m) : k2 # last.k

----------------------------------------------------------------------------
(* C19                                                                     *)

IsSelfOp(op) == op \in {"assign", "move-assign", "update-replace", "update-preserve"}

\* C19: a copy assignment, a move assignment or an update (in either mode) of
\* a map from itself leaves its keys, cells and flag as they were and frees
\* and allocates no payload.
C19_SelfAssignIsNoOp ==
  [][(IsSelfOp(last'.op) /\ last'.m = last'.o) => UNCHANGED dictVars]_vars

\* A flag-true map holding a boxed value was assigned from itself.
C19_Witness ==
  /\ last.op = "assign" /\ last.m = last.o
  /\ _hasNonPodData[last.m]
  /\ BoxedKeys(last.m) # {} /\ Readable(last.m)

----------------------------------------------------------------------------
(* The read operations of Dict and the iteration views (DictIter.h).       *)

\* A std::string handed to the caller; an element of a std::map as its
\* const_iterator yields it.
Str(k) == [type |-> "std::string", v |-> k]
Entry(d, k) == [type |-> "std::pair", first |-> Str(k), second |-> d[k]]

\* The value of the caller's variable before a call that may write to it.
Untouched == [type |-> "untouched", v |-> 0]

\* The keys of a std::map in iteration (ascending) order.
RECURSIVE InOrder(_)
InOrder(ks) == IF ks = {} THEN <<>> ELSE <<Min(ks)>> \o InOrder(ks \ {Min(ks)})

\* STR_VECT keys() const
keys(d) == [i \in 1..Cardinality(DOMAIN d) |-> Str(InOrder(DOMAIN d)[i])]

\* T getVal(what) const: throws KeyErrorException or returns the value.
GetValResult(d, h, k) ==
  IF k \notin DOMAIN d
    THEN [ret |-> "KeyErrorException", res |-> Untouched]
    ELSE [ret |-> "ok", res |-> from_rdvalue(h, d[k])]

\* getValIfPresent that assigns a default-constructed T to res before the lookup.
GetValIfPresentResult_ClobbersRes(d, h, k, res0) ==
  IF k \notin DOMAIN d
    THEN [ret |-> FALSE, res |-> NoVal]
    ELSE [ret |-> TRUE, res |-> from_rdvalue(h, d[k])]

\* bool getValIfPresent(what, T &res) const, with res0 the caller's res before
\* the call.
GetValIfPresentResult(d, h, k, res0) ==
  IF k \notin DOMAIN d
    THEN [ret |-> FALSE, res |-> res0]
    ELSE [ret |-> TRUE, res |-> from_rdvalue(h, d[k])]

\* for (x : iterKeys()): DictConstIterableKeys::begin() and end() hand out the
\* std::map const_iterators first and last, so *it is the map's element.
RangeForKeys(d) == [i \in 1..Cardinality(DOMAIN d) |-> Entry(d, InOrder(DOMAIN d)[i])]

\* for (x : iterValues()): DictConstIterableValues::begin() and end() likewise.
RangeForValues(d) == [i \in 1..Cardinality(DOMAIN d) |-> Entry(d, InOrder(DOMAIN d)[i])]

CallGetVal(m, k) ==
  /\ alive[m]
  /\ last' = Op("getVal", m, NoMap, k, GetValResult(_data[m], heap, k))
  /\ UNCHANGED <<dictVars, copied, others>>

CallGetValIfPresent(m, k) ==
  /\ alive[m]
  /\ last' = Op("getValIfPresent", m, NoMap, k, GetValIfPresentResult(_data[m], heap, k, Untouched))
  /\ UNCHANGED <<dictVars, copied, others>>

CallIterKeys(m) ==
  /\ alive[m]
  /\ last' = Op("iterKeys", m, NoMap, 0, RangeForKeys(_data[m]))
  /\ UNCHANGED <<dictVars, copied, others>>

CallIterValues(m) ==
  /\ alive[m]
  /\ last' = Op("iterValues", m, NoMap, 0, RangeForValues(_data[m]))
  /\ UNCHANGED <<dictVars, copied, others>>

NextRead ==
  \/ Next
  \/ \E m \in Maps, k \in Keys : CallGetVal(m, k)
  \/ \E m \in Maps, k \in Keys : CallGetValIfPresent(m, k)
  \/ \E m \in Maps : CallIterKeys(m)
  \/ \E m \in Maps : CallIterValues(m)

SpecRead == Init /\ [][NextRead]_vars

----------------------------------------------------------------------------
(* C11, C12, C17                                                           *)

Absent(d, h, k) == GetValResult(d, h, k).ret = "KeyErrorException"

\* C11 (as claimed): getVal(k) throws KeyErrorException exactly when k is not
\* present and then changes nothing; and k is not present once clearVal(k),
\* reset, a move out of the map or a whole-map replacement from a map without
\* k has removed it.
C11_GetFailsIffAbsent ==
  [][/\ last'.op = "getVal" =>
          /\ (last'.val.ret = "KeyErrorException") = ~hasVal(last'.m, last'.k)
          /\ UNCHANGED dictVars
     /\ last'.op = "clearVal" => Absent(_data'[last'.m], heap', last'.k)
     /\ last'.op = "reset" => \A k \in Keys : Absent(_data'[last'.m], heap', k)
     /\ (IsMove(last'.op) /\ last'.m # last'.o) =>
          \A k \in Keys : Absent(_data'[last'.o], heap', k)
     /\ (IsReplace(last'.op) /\ last'.m # last'.o) =>
          \A k \in Keys \ DOMAIN _data[last'.o] : Absent(_data'[last'.m], heap', k)]_vars

C17_ViewsYieldKeysAndValues ==
  /\ last.op = "iterKeys" => last.val = keys(_data[last.m])
  /\ last.op = "iterValues" =>
        last.val = [i \in 1..Cardinality(DOMAIN _data[last.m]) |->
                 _data[last.m][InOrder(DOMAIN _data[last.m])[i]]]

----------------------------------------------------------------------------
(* PairHolder (Dict.h) and the caller's std::pair<std::string, RDValue>.   *)

\* The map whose entries the caller extracts and which it goes on using.
HolderMaps == {Min(Maps)}

dictOnly == <<alive, _data, _hasNonPodData, copied>>
rankVars == <<vect, indices, res, touched>>

\* The caller builds a std::pair<std::string, RDValue> p from a key and a
\* typed value; p.second owns the payload of a boxed value.
MakePair(k, val) ==
  /\ caller.st # "live"
  /\ NumNew(val) <= NumFree(heap)
  /\ LET r == RDValueOf(heap, val)
     IN /\ caller' = [st |-> "live", key |-> k, c |-> r.c]
        /\ heap' = r.h
  /\ last' = Op("pair", NoMap, NoMap, k, val)
  /\ UNCHANGED <<dictOnly, holder, rankVars>>

\* RDValue::cleanup_rdvalue(p.second) by the owner of the pair, at the end of
\* the pair's use.
CallerCleanup ==
  /\ caller.st = "live"
  /\ heap' = cleanup_rdvalue(heap, caller.c)
  /\ caller' = [caller EXCEPT !.st = "cleaned"]
  /\ last' = Op("cleanup_rdvalue", NoMap, NoMap, caller.key, NoVal)
  /\ UNCHANGED <<dictOnly, holder, rankVars>>

\* A constructor from a map's entry that copies the cell bit for bit.
HolderFromReference_Bitwise(m, k) ==
  /\ holder.st # "live"
  /\ alive[m] /\ k \in DOMAIN _data[m]
  /\ NumBoxed(_data[m], {k}) <= NumFree(heap)
  /\ holder' = [st |-> "live", from |-> "reference", key |-> k, val |-> _data[m][k]]
  /\ last' = Op("PairHolder(const&)", m, NoMap, k, NoVal)
  /\ UNCHANGED <<dictOnly, heap, caller, rankVars>>

\* explicit PairHolder(const std::pair<std::string, RDValue> &p), with p an
\* entry of the map m: key(p.first), copy_rdvalue(val, p.second).
HolderFromReference(m, k) ==
  /\ holder.st # "live"
  /\ alive[m] /\ k \in DOMAIN _data[m]
  /\ NumBoxed(_data[m], {k}) <= NumFree(heap)
  /\ LET r == copy_rdvalue(heap, _data[m][k])
     IN /\ holder' = [st |-> "live", from |-> "reference", key |-> k, val |-> r.c]
        /\ heap' = r.h
  /\ last' = Op("PairHolder(const&)", m, NoMap, k, NoVal)
  /\ UNCHANGED <<dictOnly, caller, rankVars>>

\* A move constructor that leaves the source's tag as it was.
HolderFromOwned_NoRetag ==
  /\ holder.st # "live"
  /\ caller.st = "live"
  /\ holder' = [st |-> "live", from |-> "owned", key |-> caller.key, val |-> caller.c]
  /\ \E moved \in {0, caller.key} : caller' = [caller EXCEPT !.key = moved]
  /\ last' = Op("PairHolder(&&)", NoMap, NoMap, caller.key, NoVal)
  /\ UNCHANGED <<dictOnly, heap, rankVars>>

\* explicit PairHolder(std::pair<std::string, RDValue> &&p), with p the
\* caller's pair: key(std::move(p.first)), val(std::move(p.second)), then
\* p.second.type = EmptyTag.  The moved-from p.first is left valid but
\* unspecified: empty or unchanged.
HolderFromOwned ==
  /\ holder.st # "live"
  /\ caller.st = "live"
  /\ holder' = [st |-> "live", from |-> "owned", key |-> caller.key, val |-> caller.c]
  /\ \E moved \in {0, caller.key} :
       caller' = [caller EXCEPT !.key = moved, !.c.type = "EmptyTag"]
  /\ last' = Op("PairHolder(&&)", NoMap, NoMap, caller.key, NoVal)
  /\ UNCHANGED <<dictOnly, heap, rankVars>>

\* ~PairHolder()
HolderDestroy ==
  /\ holder.st = "live"
  /\ heap' = cleanup_rdvalue(heap, holder.val)
  /\ holder' = [holder EXCEPT !.st = "destroyed"]
  /\ last' = Op("~PairHolder", NoMap, NoMap, holder.key, NoVal)
  /\ UNCHANGED <<dictOnly, caller, rankVars>>

\* The operations that mutate one map on its own.
MutateMap(m) ==
  \/ DefaultConstruct(m)
  \/ Destroy(m)
  \/ \E k \in Keys, val \in BoxedVals : setVal(m, k, val)
  \/ \E k \in Keys, val \in PodVals : setPODVal(m, k, val)
  \/ \E k \in Keys, val \in PodVals \cup BoxedVals : moveInsert(m, k, val)
  \/ \E k \in Keys : clearVal(m, k)
  \/ reset(m)

NextHolder ==
  \/ \E m \in HolderMaps : MutateMap(m)
  \/ \E k \in Keys, val \in PodVals \cup BoxedVals : MakePair(k, val)
  \/ CallerCleanup
  \/ \E m \in HolderMaps, k \in Keys : HolderFromReference(m, k)
  \/ HolderFromOwned
  \/ HolderDestroy

SpecHolder == Init /\ [][NextHolder]_vars

\* The typed value the holder's cell reads as.
HolderValue(hd, h) == from_rdvalue(h, hd.val)

\* The boxed cells, other than the holder's own, that reference the payload p:
\* cells of the live maps (al, d) and the caller's cell cl.
OtherOwnersIn(al, d, cl, p) ==
  {c \in Maps \X Keys : /\ al[c[1]] /\ c[2] \in DOMAIN d[c[1]]
                        /\ ~is_pod(d[c[1]][c[2]]) /\ d[c[1]][c[2]].ptr = p}
    \cup (IF cl.st = "live" /\ ~is_pod(cl.c) /\ cl.c.ptr = p
            THEN {<<NoMap, 0>>} ELSE {})

----------------------------------------------------------------------------
(* C15, C16                                                                *)

\* C15: constructing a PairHolder from the caller's pair by move hands the
\* holder the caller's cell, re-tags the caller's cell EmptyTag and leaves the
\* holder's cell the only boxed cell referencing the payload; from then on
\* the payload is live while the holder lives and freed exactly once when
\* the holder has been destroyed, whether the caller cleans its cell up
\* before or after.
C15_HolderMoveOwnership ==
  [][/\ last'.op = "PairHolder(&&)" =>
          /\ holder'.val = caller.c /\ holder'.key = caller.key
          /\ caller'.c.type = "EmptyTag"
          /\ UNCHANGED heap
          /\ ~is_pod(holder'.val) => OtherOwnersIn(alive', _data', caller', holder'.val.ptr) = {}
     /\ (holder'.from = "owned" /\ ~is_pod(holder'.val)) =>
          heap'[holder'.val.ptr].st =
             IF holder'.st = "live" THEN "live" ELSE "freed"]_vars

\* The holder took a boxed payload from the caller's pair, was destroyed, and
\* the caller then cleaned up its pair: the payload is freed once.
C15_Witness ==
  /\ last.op = "cleanup_rdvalue"
  /\ holder.st = "destroyed" /\ holder.from = "owned"
  /\ ~is_pod(holder.val)
  /\ caller.st = "cleaned" /\ caller.c.type = "EmptyTag"
  /\ caller.c.ptr = holder.val.ptr
  /\ heap[holder.val.ptr].st = "freed"

IsMapMutation(op) ==
  op \in {"Dict", "~Dict", "setVal", "setPODVal", "moveInsert", "clearVal", "reset"}

\* C16: constructing a PairHolder from an entry of a map leaves the map's
\* keys, cells and payloads as they were and gives the holder the entry's key
\* and value in a payload of its own; destroying the holder leaves every
\* value of the map reading as before, and destroying or mutating the map
\* leaves the holder's key and value as they were.
C16_HolderCopyIndependence ==
  [][/\ last'.op = "PairHolder(const&)" =>
          /\ UNCHANGED <<alive, _data, _hasNonPodData>>
          /\ \A p \in Addrs : heap[p].st # "unalloc" => heap'[p] = heap[p]
          /\ holder'.key = last'.k
          /\ HolderValue(holder', heap') = ReadVal(_data[last'.m], heap, last'.k)
          /\ ~is_pod(holder'.val) =>
               /\ heap[holder'.val.ptr].st = "unalloc"
               /\ OtherOwnersIn(alive', _data', caller', holder'.val.ptr) = {}
     /\ last'.op = "~PairHolder" =>
          /\ UNCHANGED <<alive, _data, _hasNonPodData>>
          /\ \A m \in Maps : ContentsOf(_data'[m], heap') = ContentsOf(_data[m], heap)
     /\ (IsMapMutation(last'.op) /\ holder.st = "live" /\ holder.from = "reference") =>
          /\ holder' = holder
          /\ HolderValue(holder', heap') = HolderValue(holder, heap)
     /\ (holder'.st = "live" /\ holder'.from = "reference") =>
          HolderValue(holder', heap').type # "Dangling"]_vars

\* A holder built from a boxed entry still reads the entry's value after the
\* map it came from has been destroyed.
C16_Witness ==
  /\ last.op = "~Dict"
  /\ holder.st = "live" /\ holder.from = "reference"
  /\ ~is_pod(holder.val)
  /\ HolderValue(holder, heap).type = "StringTag"
  /\ \E p \in Addrs : p # holder.val.ptr /\ heap[p].st = "freed"

----------------------------------------------------------------------------
(* moveInsert with an RDValue the caller keeps (an lvalue, or std::move of *)
(* one): the parameter val is a copy of the caller's cell.                 *)

\* void moveInsert(std::string_view what, RDValue val), called with the
\* caller's cell.  val.type = EmptyTag at the end writes the parameter, which
\* dies at the return; the caller's cell is not written.
moveInsertFrom(m, k) ==
  /\ alive[m]
  /\ caller.st = "live"
  /\ LET val == caller.c
         d == _data[m]
     IN /\ _hasNonPodData' = [_hasNonPodData EXCEPT ![m] = @ \/ ~is_pod(val)]
        /\ IF k \in DOMAIN d
             THEN /\ heap' = cleanup_rdvalue(heap, d[k])
                  /\ _data' = [_data EXCEPT ![m] = [d EXCEPT ![k] = val]]
             ELSE /\ heap' = heap
                  /\ _data' = [_data EXCEPT ![m] = Emplace(d, k, val)]
  /\ last' = Op("moveInsert(lvalue)", m, NoMap, k, NoVal)
  /\ UNCHANGED <<alive, copied, caller, holder, rankVars>>

NextMoveInsert ==
  \/ \E m \in HolderMaps : MutateMap(m)
  \/ \E k \in Keys, val \in PodVals \cup BoxedVals : MakePair(k, val)
  \/ CallerCleanup
  \/ \E m \in HolderMaps, k \in Keys : moveInsertFrom(m, k)

SpecMoveInsert == Init /\ [][NextMoveInsert]_vars

----------------------------------------------------------------------------
(* C18                                                                     *)

\* C18 (as claimed): after moveInsert(key, val) the map's cell for key holds
\* val's payload and is the only boxed cell referencing it (the caller's cell
\* does not), a cell stored under key before has been cleaned up, and the
\* flag is true iff it was true before or val is not a primitive.
C18_MoveInsertTransfersOwnership ==
  [][last'.op \in {"moveInsert", "moveInsert(lvalue)"} =>
       LET m == last'.m
           k == last'.k
           c == _data'[m][k]
       IN /\ k \in DOMAIN _data'[m]
          /\ last'.op = "moveInsert(lvalue)" => c = caller.c
          /\ last'.op = "moveInsert" => from_rdvalue(heap', c) = last'.val
          /\ ~is_pod(c) =>
               OtherOwnersIn(alive', _data', caller', c.ptr) = {<<m, k>>}
          /\ (k \in DOMAIN _data[m] /\ ~is_pod(_data[m][k])) =>
               heap'[_data[m][k].ptr].st # "live"
          /\ _hasNonPodData'[m] = (_hasNonPodData[m] \/ ~is_pod(c))]_vars

----------------------------------------------------------------------------
(* Rankers::rankVect (Ranking.h).  A vector of size n is a function on     *)
(* 0..n-1, so positions are the C++ ones.                                  *)

RankVals == 1..MaxRankVal

Size(f) == Cardinality(DOMAIN f)

Vec(n, S) == [0..(n - 1) -> S]

\* std::iota(indices.begin(), indices.end(), 0)
Iota(n) == [i \in 0..(n - 1) |-> i]

\* argless<std::vector<T1>>(vect)(v1, v2)
argless(v, v1, v2) == v[v1] < v[v2]

Perms(S) == {pi \in [S -> S] : \A y \in S : \E x \in S : pi[x] = y}

\* std::sort(indices.begin() + lo, indices.begin() + hi, argless(v)): the
\* positions lo..hi-1 are rearranged into some order in which no element is
\* less than one before it; std::sort is not stable, so equal elements end in
\* any order.
SortOutcomes(ind, lo, hi, v) ==
  {[i \in DOMAIN ind |-> IF lo <= i /\ i < hi THEN ind[pi[i]] ELSE ind[i]] :
     pi \in {q \in Perms(lo..(hi - 1)) :
               \A a, b \in lo..(hi - 1) : a < b => ~argless(v, ind[q[b]], ind[q[a]])}}

\* end < n_minus_1, where size_t n_minus_1 = n - 1: for n = 0 the subtraction
\* wraps to SIZE_MAX, which is above every end.
BelowNMinus1(end, n) == IF n = 0 THEN TRUE ELSE end < n - 1

\* while (end < n_minus_1 && res[indices[end]] == res[indices[end+1]]) end++;
RECURSIVE RunEnd(_, _, _, _)
RunEnd(ind, r, end, n) ==
  IF BelowNMinus1(end, n) /\ r[ind[end]] = r[ind[end + 1]]
    THEN RunEnd(ind, r, end + 1, n)
    ELSE end

\* The positions of res that loop reads.
RECURSIVE RunReads(_, _, _, _)
RunReads(ind, r, end, n) ==
  IF BelowNMinus1(end, n)
    THEN {ind[end], ind[end + 1]} \cup
         (IF r[ind[end]] = r[ind[end + 1]] THEN RunReads(ind, r, end + 1, n) ELSE {})
    ELSE {}

\* The reset_indices = false branch: for every run start..end of positions
\* whose previous ranks are equal, std::sort(indices.begin()+start,
\* indices.begin()+end, ...), then start = end (and the for's start++).
\* Yields every possible final indices with the positions of res read.
RECURSIVE ResortRuns(_, _, _, _, _, _)
ResortRuns(ind, r, v, start, n, reads) ==
  IF ~(start < n) THEN {[ind |-> ind, reads |-> reads]}
  ELSE LET end == RunEnd(ind, r, start, n)
           rd == reads \cup RunReads(ind, r, start, n)
       IN IF end # start
            THEN UNION {ResortRuns(q, r, v, end + 1, n, rd) :
                          q \in SortOutcomes(ind, start, end, v)}
            ELSE ResortRuns(ind, r, v, start + 1, n, rd)

\* for (size_t i = 1; i < n; i++) { idx = indices[i]; res[idx] = (vect[idx] ==
\*   vect[indices[i-1]]) ? currRank : ++currRank; }
RECURSIVE AssignRanks(_, _, _, _, _, _)
AssignRanks(r, ind, v, i, currRank, n) ==
  IF ~(i < n) THEN r
  ELSE LET idx == ind[i]
       IN IF v[idx] = v[ind[i - 1]]
            THEN AssignRanks([r EXCEPT ![idx] = currRank], ind, v, i + 1, currRank, n)
            ELSE AssignRanks([r EXCEPT ![idx] = currRank + 1], ind, v, i + 1, currRank + 1, n)

\* res[0] = 0; a write past the end of an empty res leaves the container as
\* it is.
FirstRank(r, ind) == IF 0 \in DOMAIN r THEN [r EXCEPT ![0] = 0] ELSE r

\* The positions of res the ranking loop writes.
Writes(ind, n) == {0} \cup {ind[i] : i \in 1..(n - 1)}

\* rankVect(vect, indices, res, reset_indices) on v, ind, r: every outcome,
\* as the final indices and res, the positions of res read or written, and
\* whether the call returned (the write res[0] on an empty res is out of
\* bounds: the call goes on or the process dies).
RankVectOutcomes(v, ind, r, reset_indices) ==
  LET n == Size(v)
      sorted == IF reset_indices
                  THEN {[ind |-> q, reads |-> {}] : q \in SortOutcomes(Iota(n), 0, n, v)}
                  ELSE ResortRuns(ind, r, v, 0, n, {})
      rets == IF 0 \in DOMAIN r THEN {"returned"} ELSE {"returned", "crashed"}
  IN {[indices |-> s[1].ind,
       res |-> AssignRanks(FirstRank(r, s[1].ind), s[1].ind, v, 1, 0, n),
       touched |-> s[1].reads \cup Writes(s[1].ind, n),
       ret |-> s[2]] : s \in sorted \X rets}

RankOps == {"rankVect(full)", "rankVect(incremental)", "rankVect(vect, res)"}

Crashed == last.op \in RankOps /\ last.val.ret = "crashed"

\* void rankVect(const std::vector<T1> &vect, std::vector<unsigned int> &indices,
\*               T2 &res, bool reset_indices = true)
rankVect(reset_indices) ==
  /\ ~Crashed
  /\ Size(res) >= Size(vect)
  /\ Size(indices) = Size(vect)
  /\ \E o \in RankVectOutcomes(vect, indices, res, reset_indices) :
       /\ indices' = o.indices
       /\ res' = o.res
       /\ touched' = o.touched
       /\ last' = Op(IF reset_indices THEN "rankVect(full)" ELSE "rankVect(incremental)",
                     NoMap, NoMap, 0, [ret |-> o.ret])
  /\ UNCHANGED <<dictVars, copied, caller, holder, vect>>

\* void rankVect(const std::vector<T1> &vect, T2 &res): a local
\* std::vector<unsigned int> indices(nEntries), then the full ranking.
rankVectRes ==
  /\ ~Crashed
  /\ Size(res) >= Size(vect)
  /\ \E o \in RankVectOutcomes(vect, [i \in 0..(Size(vect) - 1) |-> 0], res, TRUE) :
       /\ res' = o.res
       /\ touched' = o.touched
       /\ last' = Op("rankVect(vect, res)", NoMap, NoMap, 0, [ret |-> o.ret])
  /\ UNCHANGED <<dictVars, copied, caller, holder, vect, indices>>

\* The caller changes the values of vect between two rankings.
SetVect(v) ==
  /\ ~Crashed
  /\ v \in Vec(Size(vect), RankVals)
  /\ v # vect
  /\ vect' = v
  /\ touched' = {}
  /\ last' = Op("vect", NoMap, NoMap, 0, NoVal)
  /\ UNCHANGED <<dictVars, copied, caller, holder, indices, res>>

\* Before the first ranking: a vect of any size up to MaxN, indices of the
\* same size, and a res of at least that size that is zero-filled or holds
\* stale entries.
InitRank ==
  /\ alive = [m \in Maps |-> TRUE]
  /\ _data = [m \in Maps |-> EmptyData]
  /\ _hasNonPodData = [m \in Maps |-> FALSE]
  /\ heap = [p \in Addrs |-> [st |-> "unalloc", v |-> 0]]
  /\ last = Op("init", NoMap, NoMap, 0, NoVal)
  /\ copied = FALSE
  /\ caller = NoCaller
  /\ holder = NoHolder
  /\ \E n \in 0..MaxN, extra \in 0..MaxExtra :
       /\ vect \in Vec(n, RankVals)
       /\ indices = [i \in 0..(n - 1) |-> 0]
       /\ res \in Vec(n + extra, {0, MaxN})
  /\ touched = {}

NextRank ==
  \/ \E reset_indices \in BOOLEAN : rankVect(reset_indices)
  \/ rankVectRes
  \/ \E v \in UNION {Vec(n, RankVals) : n \in 0..MaxN} : SetVect(v)

SpecRank == InitRank /\ [][NextRank]_vars

\* Dense ranks of v in r: order and ties as in v, ranks exactly 0..m-1 for m
\* distinct values.
DenseRanked(v, r) ==
  LET P == DOMAIN v
  IN /\ \A i, j \in P : /\ (r[i] < r[j]) = (v[i] < v[j])
                        /\ (r[i] = r[j]) = (v[i] = v[j])
     /\ {r[i] : i \in P} = 0..(Cardinality({v[i] : i \in P}) - 1)

\* indices and res are what a ranking of n entries leaves: indices a
\* permutation of the positions, the ranks along it starting at 0 and rising
\* by 0 or 1.
PreviouslyRanked(ind, r, n) ==
  /\ {ind[i] : i \in DOMAIN ind} = 0..(n - 1)
  /\ r[ind[0]] = 0
  /\ \A i \in 1..(n - 1) : r[ind[i]] \in {r[ind[i - 1]], r[ind[i - 1]] + 1}

\* v keeps the order between entries of different previous ranks r.
Refines(v, r) == \A i, j \in DOMAIN v : r[i] < r[j] => v[i] < v[j]

----------------------------------------------------------------------------
(* C13, C14, C20                                                           *)

\* C13 (as claimed): after a full ranking of a non-empty vect, whatever res
\* held before, res[0..n-1] are the dense ranks of vect.
C13_FullRankIsDense ==
  (last.op \in {"rankVect(full)", "rankVect(vect, res)"} /\ Size(vect) >= 1) =>
     DenseRanked(vect, res)

\* C14 (as claimed): with indices and res left by a previous ranking and a
\* vect that only refines or reorders values inside previously tied runs, the
\* incremental ranking leaves res as a full ranking of the same vect would.
C14_IncrementalEqualsFull ==
  [][(/\ last'.op = "rankVect(incremental)"
      /\ Size(vect) >= 1
      /\ PreviouslyRanked(indices, res, Size(vect))
      /\ Refines(vect, res)) =>
        res' \in {o.res : o \in RankVectOutcomes(vect, indices, res, TRUE)}]_vars

\* C20 (as claimed): every position of res a ranking reads or writes is below
\* the size n of vect, for n = 0 too.
C20_TouchesOnlyInputPositions ==
  last.op \in RankOps => touched \subseteq 0..(Size(vect) - 1)

====
